---- MODULE Spec2Model ----
(***************************************************************************)
(* Model of src/modules/Employer.py: the command dispatcher job_on_command, *)
(* the mail-polling job (start_checking_new_emails, its worker thread and   *)
(* stop_checking_new_emails), the accept_game watcher and the foreground    *)
(* ask_question, weather, check_new_emails and help actions, for one or     *)
(* several Employer objects sharing the class-level job map.                *)
(*                                                                          *)
(* Every Python statement that reads or writes Employer._active_jobs, or    *)
(* starts or joins a thread, is a step of its own, because the code holds   *)
(* no lock: other threads may run between any two of them.                  *)
(***************************************************************************)
EXTENDS Integers, Sequences, FiniteSets, TLC

\* ------------------------------------------------------------------ bounds
\* Threads that may call job_on_command at the same time (ConcSpec only).
NumCallers == 2
\* Commands handed to job_on_command over one run of the program.
MaxCalls == 3
\* Commands handed to job_on_command over one run with concurrent callers.
MaxConcCalls == 2
\* Commands handed to job_on_command over one run with several Employer
\* objects.
MaxInstCalls == 2
\* Employer objects constructed in the process (MultiSpec only).
NumInstances == 2

Callers == 1..NumCallers
\* The control thread of the program: it processes one command at a time.
Main == CHOOSE c \in Callers : \A d \in Callers : c <= d

\* The Employer objects job_on_command is called on.
Instances == 1..NumInstances
\* The Employer object of a program that constructs one only.
First == CHOOSE i \in Instances : \A j \in Instances : i <= j

\* ------------------------------------------------------------- vocabulary
\* The key the mail-polling job is recorded under (lines 164, 170, 175, 189).
Key == "check_new_emails"

\* Employer.available_jobs (lines 20-32).
available_jobs ==
    { "help", "ask_question", "check_new_emails", "start_checking_new_emails",
      "stop_checking_new_emails", "weather", "accept_game", "idle_mouse",
      "queue_up", "close_computer", "exit" }

\* AI.get_function_to_call gave no call (line 49).
None == "None"
\* A name the resolver may return that is no key of available_jobs.
UnknownName == "no_such_action"

\* The names the resolver returns in this model.
Resolved ==
    { "help", "ask_question", "check_new_emails", "start_checking_new_emails",
      "stop_checking_new_emails", "weather", "accept_game", UnknownName }

\* No job recorded: Employer._active_jobs = {} (line 17).
NoJobs == << >>

VARIABLES
    active_jobs,   \* Employer._active_jobs: [subset of {Key} -> thread id]
    threads,       \* mail-polling threads, in order of creation
    watchers,      \* accept_game threads, in order of creation
    self_audio,    \* Employer.audio of each instance (line 34)
    pc,            \* where each caller is inside job_on_command
    cur,           \* the call each caller is executing
    done,          \* the last call each caller completed
    before,        \* the call each caller completed before that one
    callers,       \* the threads that call job_on_command
    instances,     \* the Employer objects constructed
    calls,         \* commands handed to job_on_command so far
    stopSeen       \* some stop_checking_new_emails call has begun

vars == << active_jobs, threads, watchers, self_audio, pc, cur, done, before,
           callers, instances, calls, stopSeen >>

\* The commands one run hands to job_on_command.
Budget ==
    IF callers # {Main} THEN MaxConcCalls
    ELSE IF instances # {First} THEN MaxInstCalls
    ELSE MaxCalls

\* ---------------------------------------------------------------- records
\* A call that is not running.
NoCall ==
    [ inst |-> 0, resp |-> None, argAudio |-> "absent", audio |-> FALSE,
      reported |-> FALSE, invoked |-> FALSE,
      failed |-> FALSE, spawned |-> 0, joined |-> 0, entry |-> NoJobs,
      missing |-> FALSE, coords |-> << >>, trace |-> << >> ]

\* No call completed yet.
NoDone ==
    [ inst |-> 0, resp |-> None, audio |-> FALSE, outcome |-> "none",
      ret |-> "none",
      reported |-> FALSE,
      invoked |-> FALSE, failed |-> FALSE, spawned |-> 0, joined |-> 0,
      entry |-> NoJobs, exit |-> NoJobs, missing |-> FALSE, coords |-> << >>,
      trace |-> << >> ]

\* The output channel an action uses for its audio argument (lines 130-133).
OutputMode(audio) == IF audio THEN "spoken" ELSE "printed"

\* A mail-polling thread is alive from thread.start() until wrapper returns
\* or raises.
Alive(t) == threads[t].pc \in { "check", "work", "sleep" }

LiveWorkers == { t \in DOMAIN threads : Alive(t) }

WatcherAlive(w) == watchers[w].pc # "done"

\* The state after the class is loaded, with its one _active_jobs, and the
\* Employer(audio) objects are constructed (lines 17-34), before any command.
Loaded ==
    /\ active_jobs = NoJobs
    /\ threads = << >>
    /\ watchers = << >>
    /\ pc = [c \in Callers |-> "idle"]
    /\ cur = [c \in Callers |-> NoCall]
    /\ done = [c \in Callers |-> NoDone]
    /\ before = [c \in Callers |-> NoDone]
    /\ calls = 0
    /\ stopSeen = FALSE

\* The program: one control thread hands commands to job_on_command one at a
\* time.
Init ==
    /\ Loaded
    /\ callers = {Main}
    /\ instances = {First}
    /\ self_audio \in [instances -> BOOLEAN]

\* Several threads inside job_on_command at once.
ConcInit ==
    /\ Loaded
    /\ callers = Callers
    /\ instances = {First}
    /\ self_audio \in [instances -> BOOLEAN]

\* The control thread with several Employer objects: Employer(audio=False)
\* first, Employer(audio=True) after it.
MultiInit ==
    /\ Loaded
    /\ callers = {Main}
    /\ instances = Instances
    /\ self_audio = [i \in instances |-> i # First]

\* ------------------------------------------------------- job_on_command
\* What is kept of a completed call once the next call has completed: which
\* call it was and what it did to the job map and the threads.
Summary(call) ==
    [NoDone EXCEPT !.resp = call.resp, !.audio = call.audio,
                   !.outcome = call.outcome, !.ret = call.ret,
                   !.spawned = call.spawned, !.joined = call.joined,
                   !.entry = call.entry, !.exit = call.exit]

\* job_on_command ends for caller c: it returns None (outcome "returned", no
\* function of the module has a return statement with a value) or the
\* exception of the handler leaves it (outcome "raised"); there is no try
\* statement in job_on_command (lines 47-60).
Finish(c, outcome, call, jobs) ==
    /\ pc' = [pc EXCEPT ![c] = "idle"]
    /\ cur' = [cur EXCEPT ![c] = NoCall]
    /\ before' = [before EXCEPT ![c] = Summary(done[c])]
    /\ done' = [done EXCEPT ![c] =
            [ inst |-> call.inst, resp |-> call.resp, audio |-> call.audio,
              outcome |-> outcome,
              ret |-> None,
              reported |-> call.reported, invoked |-> call.invoked,
              failed |-> call.failed, spawned |-> call.spawned,
              joined |-> call.joined, entry |-> call.entry, exit |-> jobs,
              missing |-> call.missing, coords |-> call.coords,
              trace |-> call.trace ]]

\* The first statement of each handler.
EntryPoint(name) ==
    CASE name = "start_checking_new_emails" -> "start_check"
      [] name = "stop_checking_new_emails" -> "stop_check"
      [] name = "accept_game" -> "accept_game"
      [] name = "check_new_emails" -> "check_new_emails"
      [] name = "ask_question" -> "ask_question"
      [] name = "weather" -> "weather"
      [] OTHER -> "help"

\* Lines 47-52: the resolver returns None; the error is printed, nothing else.
ResolveNone(c) ==
    /\ c \in callers
    /\ pc[c] = "idle"
    /\ calls < Budget
    /\ calls' = calls + 1
    /\ \E i \in instances :
          Finish(c, "returned",
                 [NoCall EXCEPT !.inst = i, !.reported = TRUE,
                                !.entry = active_jobs],
                 active_jobs)
    /\ UNCHANGED << active_jobs, threads, watchers, self_audio, callers, instances, stopSeen >>

\* Lines 54-60 with a name that is no key of available_jobs: the if at line 59
\* is false and there is no else branch, so nothing is printed or called.
ResolveUnknown(c) ==
    /\ c \in callers
    /\ pc[c] = "idle"
    /\ calls < Budget
    /\ \E i \in instances, name \in Resolved \ available_jobs :
          Finish(c, "returned",
                 [NoCall EXCEPT !.inst = i, !.resp = name,
                                !.audio = self_audio[i], !.entry = active_jobs],
                 active_jobs)
    /\ calls' = calls + 1
    /\ UNCHANGED << active_jobs, threads, watchers, self_audio, callers, instances, stopSeen >>

\* Lines 54-60 with ask_question and no "question" among the arguments: the
\* call of line 60 raises TypeError (question has no default, line 86), which
\* nothing catches.
DispatchMissingArgument(c) ==
    /\ c \in callers
    /\ pc[c] = "idle"
    /\ calls < Budget
    /\ \E i \in instances :
          Finish(c, "raised",
                 [NoCall EXCEPT !.inst = i, !.resp = "ask_question",
                                !.audio = self_audio[i], !.invoked = TRUE,
                                !.failed = TRUE, !.missing = TRUE,
                                !.entry = active_jobs],
                 active_jobs)
    /\ calls' = calls + 1
    /\ UNCHANGED << active_jobs, threads, watchers, self_audio, callers, instances, stopSeen >>

\* What the resolver may give for "audio" among the arguments: nothing, or a
\* value of its own.
ResolverAudio == { "absent", "True", "False" }

\* job_on_command with setdefault in place of the assignment of line 57: an
\* audio value of the resolver is kept.
DispatchKeepsResolverAudio(c) ==
    /\ c \in callers
    /\ pc[c] = "idle"
    /\ calls < Budget
    /\ \E i \in instances, name \in Resolved \cap available_jobs,
          given \in ResolverAudio :
          /\ pc' = [pc EXCEPT ![c] = EntryPoint(name)]
          /\ cur' = [cur EXCEPT ![c] =
                  [NoCall EXCEPT !.inst = i, !.resp = name, !.argAudio = given,
                                 !.audio = IF given = "absent" THEN self_audio[i]
                                           ELSE given = "True",
                                 !.invoked = TRUE, !.entry = active_jobs]]
          /\ stopSeen' = (stopSeen \/ name = "stop_checking_new_emails")
    /\ calls' = calls + 1
    /\ UNCHANGED << active_jobs, threads, watchers, self_audio, done, before, callers, instances >>

\* Lines 54-60 with a registered name and the arguments its handler requires,
\* on instance i: audio is set from self.audio, over whatever the resolver gave
\* for it (line 57), and the handler is called.
Dispatch(c) ==
    /\ c \in callers
    /\ pc[c] = "idle"
    /\ calls < Budget
    /\ \E i \in instances, name \in Resolved \cap available_jobs,
          given \in ResolverAudio :
          /\ pc' = [pc EXCEPT ![c] = EntryPoint(name)]
          /\ cur' = [cur EXCEPT ![c] =
                  [NoCall EXCEPT !.inst = i, !.resp = name, !.argAudio = given,
                                 !.audio = self_audio[i],
                                 !.invoked = TRUE, !.entry = active_jobs]]
          /\ stopSeen' = (stopSeen \/ name = "stop_checking_new_emails")
    /\ calls' = calls + 1
    /\ UNCHANGED << active_jobs, threads, watchers, self_audio, done, before, callers, instances >>

\* ------------------------------------------------------------ foreground
\* help (lines 62-83): prints or speaks the command list.
Help(c) ==
    /\ pc[c] = "help"
    /\ Finish(c, "returned", cur[c], active_jobs)
    /\ UNCHANGED << active_jobs, threads, watchers, self_audio, callers, instances, calls, stopSeen >>

\* ask_question with a question (lines 85-111): the answer of AI.ask_question
\* is spoken or printed, or an error is printed when there is none.
AskQuestion(c) ==
    /\ pc[c] = "ask_question"
    /\ \E answered \in BOOLEAN :
          Finish(c, "returned",
                 [cur[c] EXCEPT !.reported = ~answered,
                                !.trace = IF answered THEN << "ask_question", "say" >>
                                          ELSE << "ask_question" >>],
                 active_jobs)
    /\ UNCHANGED << active_jobs, threads, watchers, self_audio, callers, instances, calls, stopSeen >>

\* The cities the resolver passes to weather: none, the empty string, a name.
Cities == { None, "", "Paris" }

\* What a collaborator gives for a latitude and a longitude: each a number
\* (TRUE) or None (FALSE).
Coordinates == BOOLEAN \X BOOLEAN

\* The collaborator weather asks for the coordinates (lines 211-218).
CoordinateSource(city) ==
    IF city = None \/ city = "" THEN "geocoder.ip"
    ELSE "get_coordinates_for_city_name"

\* weather without the test of line 220: the weather is looked up whatever the
\* coordinates are.
WeatherNoCoordinateTest(c) ==
    /\ pc[c] = "weather"
    /\ \E city \in Cities, latlon \in Coordinates, found \in BOOLEAN :
          LET source == CoordinateSource(city)
              call == [cur[c] EXCEPT !.coords = latlon]
          IN  IF found
              THEN Finish(c, "returned",
                          [call EXCEPT !.trace = << source,
                               "get_weather_for_coordinates", "say" >>],
                          active_jobs)
              ELSE Finish(c, "returned",
                          [call EXCEPT !.reported = TRUE,
                               !.trace = << source, "get_weather_for_coordinates" >>],
                          active_jobs)
    /\ UNCHANGED << active_jobs, threads, watchers, self_audio, callers, instances, calls, stopSeen >>

\* weather (lines 193-237): the coordinates come from the geolocation when
\* there is no city and from Weather.get_coordinates_for_city_name otherwise;
\* without a latitude or a longitude an error is printed and the function
\* returns (lines 220-223); else the weather is looked up and, when there is
\* one (found), spoken or printed, otherwise an error is printed.
Weather(c) ==
    /\ pc[c] = "weather"
    /\ \E city \in Cities, latlon \in Coordinates, found \in BOOLEAN :
          LET source == CoordinateSource(city)
              call == [cur[c] EXCEPT !.coords = latlon]
          IN  IF ~latlon[1] \/ ~latlon[2]
              THEN Finish(c, "returned",
                          [call EXCEPT !.reported = TRUE, !.trace = << source >>],
                          active_jobs)
              ELSE IF found
              THEN Finish(c, "returned",
                          [call EXCEPT !.trace = << source,
                               "get_weather_for_coordinates", "say" >>],
                          active_jobs)
              ELSE Finish(c, "returned",
                          [call EXCEPT !.reported = TRUE,
                               !.trace = << source, "get_weather_for_coordinates" >>],
                          active_jobs)
    /\ UNCHANGED << active_jobs, threads, watchers, self_audio, callers, instances, calls, stopSeen >>

\* check_new_emails as a foreground action (lines 113-141). An exception of
\* Gmail.get_new_messages (ok = FALSE) is not caught here or in job_on_command.
CheckNewEmails(c) ==
    /\ pc[c] = "check_new_emails"
    /\ \E ok \in BOOLEAN :
          IF ok THEN Finish(c, "returned", cur[c], active_jobs)
          ELSE Finish(c, "raised", [cur[c] EXCEPT !.failed = TRUE], active_jobs)
    /\ UNCHANGED << active_jobs, threads, watchers, self_audio, callers, instances, calls, stopSeen >>

\* ------------------------------------------- start_checking_new_emails
\* start_checking_new_emails without the test of line 170: a thread is created
\* whether or not the key is recorded.
StartCheckNoTest(c) ==
    /\ pc[c] = "start_check"
    /\ pc' = [pc EXCEPT ![c] = "start_spawn"]
    /\ UNCHANGED << active_jobs, threads, watchers, self_audio, cur, done, before,
                    callers, instances, calls, stopSeen >>

\* start_checking_new_emails with a job map kept per Employer object: the key
\* counts as recorded only when the recorded thread was started through the
\* object of this call.
StartCheckPerInstance(c) ==
    /\ pc[c] = "start_check"
    /\ IF /\ Key \in DOMAIN active_jobs
          /\ threads[active_jobs[Key]].inst = cur[c].inst
       THEN Finish(c, "returned", cur[c], active_jobs)
       ELSE /\ pc' = [pc EXCEPT ![c] = "start_spawn"]
            /\ UNCHANGED << cur, done, before >>
    /\ UNCHANGED << active_jobs, threads, watchers, self_audio, callers, instances, calls, stopSeen >>

\* start_checking_new_emails handing its audio value to the recorded thread
\* when the key is recorded.
StartCheckUpdatesAudio(c) ==
    /\ pc[c] = "start_check"
    /\ IF Key \in DOMAIN active_jobs
       THEN /\ threads' = [threads EXCEPT
                              ![active_jobs[Key]].audio = cur[c].audio]
            /\ Finish(c, "returned", cur[c], active_jobs)
       ELSE /\ pc' = [pc EXCEPT ![c] = "start_spawn"]
            /\ UNCHANGED << threads, cur, done, before >>
    /\ UNCHANGED << active_jobs, watchers, self_audio, callers, instances, calls, stopSeen >>

\* Line 170: the test of the key. When the key is recorded the function
\* returns None having done nothing.
StartCheck(c) ==
    /\ pc[c] = "start_check"
    /\ IF Key \in DOMAIN active_jobs
       THEN Finish(c, "returned", cur[c], active_jobs)
       ELSE /\ pc' = [pc EXCEPT ![c] = "start_spawn"]
            /\ UNCHANGED << cur, done, before >>
    /\ UNCHANGED << active_jobs, threads, watchers, self_audio, callers, instances, calls, stopSeen >>

\* Lines 171-173: the thread is created and started; it runs wrapper from its
\* first statement, with the audio value of this call.
StartSpawn(c) ==
    /\ pc[c] = "start_spawn"
    /\ threads' = Append(threads,
                         [pc |-> "check", inst |-> cur[c].inst,
                          audio |-> cur[c].audio, work |-> "none",
                          out |-> "none"])
    /\ cur' = [cur EXCEPT ![c].spawned = Len(threads) + 1]
    /\ pc' = [pc EXCEPT ![c] = "start_insert"]
    /\ UNCHANGED << active_jobs, watchers, self_audio, done, before, callers, instances, calls, stopSeen >>

\* start_checking_new_emails waiting for the thread it started (a join after
\* line 173) before it records the thread and returns.
StartInsertJoined(c) ==
    /\ pc[c] = "start_insert"
    /\ ~Alive(cur[c].spawned)
    /\ active_jobs' = (Key :> cur[c].spawned)
    /\ Finish(c, "returned", cur[c], active_jobs')
    /\ UNCHANGED << threads, watchers, self_audio, callers, instances, calls, stopSeen >>

\* Line 175: the thread is recorded under the key, and the function returns.
StartInsert(c) ==
    /\ pc[c] = "start_insert"
    /\ active_jobs' = (Key :> cur[c].spawned)
    /\ Finish(c, "returned", cur[c], active_jobs')
    /\ UNCHANGED << threads, watchers, self_audio, callers, instances, calls, stopSeen >>

\* ---------------------------------------------------- the polling thread
\* Lines 163-165: the loop's test of the key; the thread ends when the key is
\* not recorded.
WorkerCheck(t) ==
    /\ t \in DOMAIN threads
    /\ threads[t].pc = "check"
    /\ threads' = [threads EXCEPT ![t].pc =
            IF Key \in DOMAIN active_jobs THEN "work" ELSE "done"]
    /\ UNCHANGED << active_jobs, watchers, self_audio, pc, cur, done, before, callers, instances, calls, stopSeen >>

\* Line 167: one mail check, with the audio value wrapper closed over; its
\* messages are spoken or printed accordingly (lines 130-141). An exception of
\* check_new_emails (ok = FALSE) is not caught in wrapper: it ends the thread.
WorkerWork(t) ==
    /\ t \in DOMAIN threads
    /\ threads[t].pc = "work"
    /\ \E ok \in BOOLEAN :
          threads' = [threads EXCEPT ![t] =
              IF ok THEN [@ EXCEPT !.pc = "sleep", !.work = "ok",
                                   !.out = OutputMode(threads[t].audio)]
              ELSE [@ EXCEPT !.pc = "crashed", !.work = "failed"]]
    /\ UNCHANGED << active_jobs, watchers, self_audio, pc, cur, done, before, callers, instances, calls, stopSeen >>

\* wrapper with the test of the key moved out of the loop: after the sleep the
\* thread goes straight to the next mail check.
WorkerSleepNoCheck(t) ==
    /\ t \in DOMAIN threads
    /\ threads[t].pc = "sleep"
    /\ threads' = [threads EXCEPT ![t].pc = "work"]
    /\ UNCHANGED << active_jobs, watchers, self_audio, pc, cur, done, before,
                    callers, instances, calls, stopSeen >>

\* Line 168: the sleep ends and the loop starts over at line 163.
WorkerSleep(t) ==
    /\ t \in DOMAIN threads
    /\ threads[t].pc = "sleep"
    /\ threads' = [threads EXCEPT ![t].pc = "check"]
    /\ UNCHANGED << active_jobs, watchers, self_audio, pc, cur, done, before, callers, instances, calls, stopSeen >>

\* -------------------------------------------- stop_checking_new_emails
\* stop_checking_new_emails without the test of line 189: the thread is looked
\* up whether or not the key is recorded.
StopCheckNoTest(c) ==
    /\ pc[c] = "stop_check"
    /\ pc' = [pc EXCEPT ![c] = "stop_lookup"]
    /\ UNCHANGED << active_jobs, threads, watchers, self_audio, cur, done, before,
                    callers, instances, calls, stopSeen >>

\* Line 189: the test of the key. When the key is not recorded the function
\* returns None having done nothing.
StopCheck(c) ==
    /\ pc[c] = "stop_check"
    /\ IF Key \in DOMAIN active_jobs
       THEN /\ pc' = [pc EXCEPT ![c] = "stop_lookup"]
            /\ UNCHANGED << cur, done, before >>
       ELSE Finish(c, "returned", cur[c], active_jobs)
    /\ UNCHANGED << active_jobs, threads, watchers, self_audio, callers, instances, calls, stopSeen >>

\* Line 190, the subscript: the recorded thread is read from the map. The key
\* is still recorded by now unless another caller deleted it: KeyError.
StopLookup(c) ==
    /\ pc[c] = "stop_lookup"
    /\ IF Key \in DOMAIN active_jobs
       THEN /\ cur' = [cur EXCEPT ![c].joined = active_jobs[Key]]
            /\ pc' = [pc EXCEPT ![c] = "stop_join"]
            /\ UNCHANGED << done, before >>
       ELSE Finish(c, "raised", [cur[c] EXCEPT !.failed = TRUE], active_jobs)
    /\ UNCHANGED << active_jobs, threads, watchers, self_audio, callers, instances, calls, stopSeen >>

\* stop_checking_new_emails without the join of line 190: the key is deleted
\* while the thread may still be running.
StopJoinNoWait(c) ==
    /\ pc[c] = "stop_join"
    /\ pc' = [pc EXCEPT ![c] = "stop_del"]
    /\ UNCHANGED << active_jobs, threads, watchers, self_audio, cur, done, before,
                    callers, instances, calls, stopSeen >>

\* Line 190, join(): returns when the thread has ended, not before.
StopJoin(c) ==
    /\ pc[c] = "stop_join"
    /\ ~Alive(cur[c].joined)
    /\ pc' = [pc EXCEPT ![c] = "stop_del"]
    /\ UNCHANGED << active_jobs, threads, watchers, self_audio, cur, done, before, callers, instances, calls, stopSeen >>

\* stop_checking_new_emails without the del statement of line 191: it returns
\* after the join with the key still recorded.
StopDelKeepsKey(c) ==
    /\ pc[c] = "stop_del"
    /\ Finish(c, "returned", cur[c], active_jobs)
    /\ UNCHANGED << active_jobs, threads, watchers, self_audio, callers, instances, calls, stopSeen >>

\* Line 191: the key is deleted and the function returns; KeyError when
\* another caller deleted it first.
StopDel(c) ==
    /\ pc[c] = "stop_del"
    /\ IF Key \in DOMAIN active_jobs
       THEN /\ active_jobs' = NoJobs
            /\ Finish(c, "returned", cur[c], NoJobs)
       ELSE /\ UNCHANGED active_jobs
            /\ Finish(c, "raised", [cur[c] EXCEPT !.failed = TRUE], active_jobs)
    /\ UNCHANGED << threads, watchers, self_audio, callers, instances, calls, stopSeen >>

\* ------------------------------------------------------------ accept_game
\* A watcher thread at the start of wrapper (line 264): nothing observed yet,
\* no pointer action done.
NewWatcher == [pc |-> "capture", seen |-> "none", moves |-> 0, clicks |-> 0]

\* accept_game with the job-map test of start_checking_new_emails: no watcher
\* is created while one is running.
AcceptGameDedup(c) ==
    /\ pc[c] = "accept_game"
    /\ watchers' = IF \E w \in DOMAIN watchers : watchers[w].pc # "done"
                   THEN watchers ELSE Append(watchers, NewWatcher)
    /\ Finish(c, "returned", cur[c], active_jobs)
    /\ UNCHANGED << active_jobs, threads, self_audio, callers, instances, calls, stopSeen >>

\* Lines 262-284: a watcher thread is created and started, and the function
\* returns; the map is not read or written.
AcceptGame(c) ==
    /\ pc[c] = "accept_game"
    /\ watchers' = Append(watchers, NewWatcher)
    /\ Finish(c, "returned", cur[c], active_jobs)
    /\ UNCHANGED << active_jobs, threads, self_audio, callers, instances, calls, stopSeen >>

\* Lines 268-274: one screenshot and the search for "accept!" in it.
WatcherCapture(w) ==
    /\ w \in DOMAIN watchers
    /\ watchers[w].pc = "capture"
    /\ \E found \in BOOLEAN :
          watchers' = [watchers EXCEPT ![w] =
              IF found THEN [@ EXCEPT !.pc = "move", !.seen = "match"]
              ELSE [@ EXCEPT !.pc = "sleep", !.seen = "no match"]]
    /\ UNCHANGED << active_jobs, threads, self_audio, pc, cur, done, before, callers, instances, calls, stopSeen >>

\* Line 275: the pointer is moved to the centre of the box.
WatcherMove(w) ==
    /\ w \in DOMAIN watchers
    /\ watchers[w].pc = "move"
    /\ watchers' = [watchers EXCEPT ![w] =
            [@ EXCEPT !.pc = "click", !.moves = @ + 1]]
    /\ UNCHANGED << active_jobs, threads, self_audio, pc, cur, done, before, callers, instances, calls, stopSeen >>

\* wrapper without the break of line 278: after the click the thread sleeps
\* and looks again.
WatcherClickNoBreak(w) ==
    /\ w \in DOMAIN watchers
    /\ watchers[w].pc = "click"
    /\ watchers' = [watchers EXCEPT ![w] =
            [@ EXCEPT !.pc = "sleep", !.clicks = @ + 1]]
    /\ UNCHANGED << active_jobs, threads, self_audio, pc, cur, done, before,
                    callers, instances, calls, stopSeen >>

\* Lines 276-278: the click, and the break that ends the thread.
WatcherClick(w) ==
    /\ w \in DOMAIN watchers
    /\ watchers[w].pc = "click"
    /\ watchers' = [watchers EXCEPT ![w] =
            [@ EXCEPT !.pc = "done", !.clicks = @ + 1]]
    /\ UNCHANGED << active_jobs, threads, self_audio, pc, cur, done, before, callers, instances, calls, stopSeen >>

\* Line 280: the sleep ends and the loop starts over at line 268.
WatcherSleep(w) ==
    /\ w \in DOMAIN watchers
    /\ watchers[w].pc = "sleep"
    /\ watchers' = [watchers EXCEPT ![w].pc = "capture"]
    /\ UNCHANGED << active_jobs, threads, self_audio, pc, cur, done, before, callers, instances, calls, stopSeen >>

\* --------------------------------------------------------- specifications
\* One step of caller c inside job_on_command.
CallerStep(c) ==
    \/ ResolveNone(c)
    \/ ResolveUnknown(c)
    \/ DispatchMissingArgument(c)
    \/ Dispatch(c)
    \/ Help(c)
    \/ AskQuestion(c)
    \/ Weather(c)
    \/ CheckNewEmails(c)
    \/ StartCheck(c)
    \/ StartSpawn(c)
    \/ StartInsert(c)
    \/ StopCheck(c)
    \/ StopLookup(c)
    \/ StopJoin(c)
    \/ StopDel(c)
    \/ AcceptGame(c)

\* One step of mail-polling thread t.
WorkerStep(t) == WorkerCheck(t) \/ WorkerWork(t) \/ WorkerSleep(t)

\* One step of watcher thread w.
WatcherStep(w) ==
    WatcherCapture(w) \/ WatcherMove(w) \/ WatcherClick(w) \/ WatcherSleep(w)

\* Every thread takes its steps in any order.
Next ==
    \/ \E c \in Callers : CallerStep(c)
    \/ \E t \in 1..MaxCalls : WorkerStep(t)
    \/ \E w \in 1..MaxCalls : WatcherStep(w)

\* The program as it runs: a single control thread next to the threads it has
\* started.
Spec == Init /\ [][Next]_vars

\* The program with fair scheduling: every thread that can take a step, the
\* control thread included, eventually takes one.
FairSpec ==
    /\ Spec
    /\ WF_vars(CallerStep(Main))
    /\ \A t \in 1..MaxCalls : WF_vars(WorkerStep(t))
    /\ \A w \in 1..MaxCalls : WF_vars(WatcherStep(w))

\* Concurrent callers of job_on_command.
ConcSpec == ConcInit /\ [][Next]_vars

\* The control thread calling job_on_command of several Employer objects.
MultiSpec == MultiInit /\ [][Next]_vars

\* ------------------------------------------------------------------ claims
StartName == "start_checking_new_emails"
StopName == "stop_checking_new_emails"

\* The callers that are inside start_checking_new_emails or
\* stop_checking_new_emails.
InStartOrStop ==
    { c \in Callers :
        pc[c] \in { "start_check", "start_spawn", "start_insert", "stop_check",
                    "stop_lookup", "stop_join", "stop_del" } }

\* C1: as long as no stop_checking_new_emails call has begun, concurrent
\* start_checking_new_emails calls leave at most one mail-polling thread alive.
C1_OneActiveWorker == ~stopSeen => Cardinality(LiveWorkers) <= 1

\* C2: a stop_checking_new_emails call that finds a running polling thread
\* recorded eventually returns, with the key removed from the map.
C2_StopTerminates ==
    (/\ pc[Main] = "stop_check"
     /\ Key \in DOMAIN active_jobs
     /\ Alive(active_jobs[Key]))
        ~> (pc[Main] = "idle" /\ Key \notin DOMAIN active_jobs)

\* The control thread has completed two start_checking_new_emails calls in
\* direct succession, the first of them with no job recorded.
StartedTwice ==
    /\ before[Main].resp = StartName
    /\ before[Main].outcome = "returned"
    /\ Key \notin DOMAIN before[Main].entry
    /\ done[Main].resp = StartName
    /\ done[Main].outcome = "returned"

\* What the two calls did, apart from the values they returned: the first
\* created a thread and recorded it, the second created none and left the map
\* as it was.
OneWorkerOfTwoStarts ==
    /\ before[Main].spawned \in DOMAIN threads
    /\ before[Main].exit = (Key :> before[Main].spawned)
    /\ done[Main].entry = before[Main].exit
    /\ done[Main].spawned = 0
    /\ done[Main].exit = done[Main].entry
    /\ active_jobs = done[Main].exit

C4_HandlerErrorsCaught ==
    \A c \in Callers :
        done[c].failed => (done[c].outcome = "returned" /\ done[c].reported)

\* C5: when the resolver gives no call or a name that is not registered,
\* job_on_command reports the failure, calls no handler, starts and joins no
\* thread and leaves the map unchanged.
C5_NoMatchReportedNoAction ==
    \A c \in Callers :
        (done[c].outcome # "none" /\ done[c].resp \notin available_jobs) =>
            /\ done[c].reported
            /\ ~done[c].invoked
            /\ done[c].spawned = 0
            /\ done[c].joined = 0
            /\ done[c].exit = done[c].entry

\* C6: a polling thread whose last mail check raised is still alive.
C6_WorkerSurvivesFailure ==
    \A t \in DOMAIN threads : threads[t].work = "failed" => Alive(t)

\* The control thread has completed a stop_checking_new_emails call that found
\* no job recorded.
StoppedNothing ==
    /\ done[Main].resp = StopName
    /\ Key \notin DOMAIN done[Main].entry

\* What such a call did, apart from the value it returned: it came back
\* without looking up or joining a thread and left the map as it was.
StopWasNoOp ==
    /\ done[Main].outcome = "returned"
    /\ done[Main].joined = 0
    /\ done[Main].spawned = 0
    /\ done[Main].exit = done[Main].entry

\* C7 as stated: stop on a key with no active job returns false and leaves the
\* state unchanged.
C7_StopAbsentReturnsFalse ==
    StoppedNothing => (done[Main].ret = "False" /\ StopWasNoOp)

\* C7 as amended: stop on a key with no active job returns None without
\* blocking and leaves the state unchanged.
C7_StopAbsentNoOp ==
    StoppedNothing => (done[Main].ret = None /\ StopWasNoOp)

\* C7 witness: a stop call made with no job recorded has completed.
C7_Witness == StoppedNothing /\ done[Main].outcome # "none"

\* C8: while no start or stop call is in progress, every live polling thread
\* is the one recorded under the key.
C8_NoOrphan ==
    InStartOrStop = {} =>
        \A t \in LiveWorkers : Key \in DOMAIN active_jobs /\ active_jobs[Key] = t

\* C8 witness: polling was started, stopped and started again, and the thread
\* of the last start is running.
C8_Witness ==
    /\ InStartOrStop = {}
    /\ stopSeen
    /\ before[Main].resp = StopName
    /\ done[Main].resp = StartName
    /\ LiveWorkers # {}

\* C9: a caller inside start_checking_new_emails or accept_game is never
\* blocked: its next statement can run whatever the threads are doing.
C9_BackgroundStartNeverBlocks ==
    \A c \in Callers :
        pc[c] \in { "start_check", "start_spawn", "start_insert", "accept_game" }
            => ENABLED CallerStep(c)

\* C9 witness: a start call and an accept_game call have returned while the
\* threads they started are still running.
C9_Witness ==
    /\ pc[Main] = "idle"
    /\ before[Main].resp = StartName
    /\ before[Main].spawned \in LiveWorkers
    /\ done[Main].resp = "accept_game"
    /\ \E w \in DOMAIN watchers : WatcherAlive(w)

\* Thread t begins the step named by where.
Begins(t, where) == threads'[t].pc = where /\ threads[t].pc # where

\* C10 as stated: a polling thread begins a mail check or a sleep only right
\* after a cancellation check.
C10_CheckBeforeWorkAndSleep ==
    [][\A t \in DOMAIN threads :
          (Begins(t, "work") \/ Begins(t, "sleep")) => threads[t].pc = "check"]_vars

\* C10 as amended: a polling thread begins a mail check only right after a
\* cancellation check, and begins a sleep right after the mail check, with no
\* cancellation check in between.
C10_CheckBeforeWorkOnly ==
    [][\A t \in DOMAIN threads :
          /\ Begins(t, "work") => threads[t].pc = "check"
          /\ Begins(t, "sleep") => threads[t].pc = "work"]_vars

\* C10 witness: a polling thread is in its second mail check, after a first
\* check and a sleep.
C10_Witness ==
    \E t \in DOMAIN threads : threads[t].pc = "work" /\ threads[t].work = "ok"

\* C11: every accept_game call adds one new watcher thread, whatever watchers
\* are running and whatever the job map holds, leaves the running watchers as
\* they are and does not change the job map.
C11_AcceptGameNotDeduplicated ==
    [][\A c \in Callers :
          (pc[c] = "accept_game" /\ pc'[c] # "accept_game") =>
              /\ watchers' = Append(watchers, NewWatcher)
              /\ active_jobs' = active_jobs
              /\ threads' = threads]_vars

\* C11 witness: every caller has completed an accept_game call while the
\* watchers of the other calls were running, and there is one running watcher
\* per call.
C11_Witness ==
    /\ \A c \in Callers : done[c].resp = "accept_game" /\ pc[c] = "idle"
    /\ Len(watchers) = Cardinality(Callers)
    /\ \A w \in DOMAIN watchers : WatcherAlive(w)

\* C12: a watcher moves the pointer and clicks at most once, only after an
\* observation that matched, and ends with the click; after an observation
\* that did not match it does nothing to the pointer and sleeps; it has not
\* ended unless it clicked.
C12_WatcherOneShot ==
    \A w \in DOMAIN watchers :
        /\ watchers[w].moves <= 1
        /\ watchers[w].clicks <= watchers[w].moves
        /\ watchers[w].moves = 1 => watchers[w].seen = "match"
        /\ watchers[w].pc = "done" <=> watchers[w].clicks = 1
        /\ watchers[w].pc = "click" <=>
              (watchers[w].moves = 1 /\ watchers[w].clicks = 0)
        /\ watchers[w].pc = "move" <=>
              (watchers[w].seen = "match" /\ watchers[w].moves = 0)
        /\ watchers[w].pc = "sleep" =>
              (watchers[w].seen = "no match" /\ watchers[w].moves = 0)

\* C12 witness: a watcher that first saw no match, slept and looked again has
\* ended after one move and one click, while another is still looking.
C12_Witness ==
    \E w, v \in DOMAIN watchers :
        /\ watchers[w].pc = "done"
        /\ watchers[w].moves = 1
        /\ watchers[w].clicks = 1
        /\ watchers[v].pc = "sleep"

\* C13: a call of ask_question that lacks the question is reported and
\* job_on_command returns normally.
C13_MissingArgumentReported ==
    \A c \in Callers :
        done[c].missing => (done[c].outcome = "returned" /\ done[c].reported)

\* The control thread has completed a weather call for a city whose
\* coordinates the collaborator could not give.
NoCoordinatesForCity ==
    /\ done[Main].resp = "weather"
    /\ done[Main].trace # << >>
    /\ done[Main].trace[1] = "get_coordinates_for_city_name"
    /\ ~(done[Main].coords[1] /\ done[Main].coords[2])

\* C14: when the coordinates of the given city cannot be had, weather reports
\* an error and makes no further call: no weather lookup, nothing said.
C14_NoCallAfterCoordinatesFail ==
    NoCoordinatesForCity =>
        /\ done[Main].outcome = "returned"
        /\ done[Main].reported
        /\ done[Main].trace = << "get_coordinates_for_city_name" >>

\* C14 witness: such a call has completed, the latitude being the missing one.
C14_Witness ==
    /\ NoCoordinatesForCity
    /\ done[Main].coords = << FALSE, TRUE >>

\* C15: whenever job_on_command invokes a handler, the handler's audio argument
\* is the audio setting of the Employer the call was made on, whatever the
\* resolver supplied under "audio", and no step changes an Employer's audio
\* setting.
C15_AudioMergedFromEmployer ==
    [][/\ self_audio' = self_audio
       /\ \A c \in Callers :
             (pc[c] = "idle" /\ pc'[c] # "idle") =>
                 /\ cur'[c].invoked
                 /\ cur'[c].audio = self_audio[cur'[c].inst]]_vars

\* C15 witness: a handler has been invoked with the Employer's audio although
\* the resolver supplied the opposite value.
C15_Witness ==
    \E c \in Callers :
        /\ pc[c] # "idle"
        /\ cur[c].invoked
        /\ cur[c].argAudio # "absent"
        /\ (cur[c].argAudio = "True") # self_audio[cur[c].inst]
        /\ cur[c].audio = self_audio[cur[c].inst]

\* The callers that are inside stop_checking_new_emails.
InStop ==
    { c \in Callers :
        pc[c] \in { "stop_check", "stop_lookup", "stop_join", "stop_del" } }

\* C16: while the key is recorded and no stop_checking_new_emails call is in
\* progress, the recorded thread is still running its polling loop.
C16_RecordedWorkerRunning ==
    (Key \in DOMAIN active_jobs /\ InStop = {}) => Alive(active_jobs[Key])

\* The control thread's last call was a stop_checking_new_emails call that
\* returned, and it has made no call since.
StopReturned ==
    /\ pc[Main] = "idle"
    /\ done[Main].resp = StopName
    /\ done[Main].outcome = "returned"

\* The control thread's last two calls were a stop_checking_new_emails call
\* that returned and then a start_checking_new_emails call.
StartedAfterStop ==
    /\ pc[Main] = "idle"
    /\ before[Main].resp = StopName
    /\ before[Main].outcome = "returned"
    /\ done[Main].resp = StartName

\* C17: after a stop_checking_new_emails call has returned the key is absent
\* and no mail-polling thread is alive; the start_checking_new_emails call
\* made next finds the map empty, creates one thread, the newest, records it
\* under the key and returns, and no other mail-polling thread is alive.
C17_RestartAfterStop ==
    /\ StopReturned => (Key \notin DOMAIN active_jobs /\ LiveWorkers = {})
    /\ StartedAfterStop =>
          /\ done[Main].outcome = "returned"
          /\ done[Main].entry = NoJobs
          /\ done[Main].spawned = Len(threads)
          /\ done[Main].spawned # before[Main].joined
          /\ done[Main].exit = (Key :> done[Main].spawned)
          /\ active_jobs = done[Main].exit
          /\ LiveWorkers \subseteq { done[Main].spawned }

\* C17 witness: a stop call that joined a recorded thread has returned, and
\* the start call after it has returned with its new thread running.
C17_Witness ==
    /\ StartedAfterStop
    /\ before[Main].joined \in DOMAIN threads
    /\ done[Main].spawned \in LiveWorkers

\* Caller c is in a call made through an Employer object other than the one
\* through which the recorded thread was started.
ThroughOtherInstance(c) ==
    /\ Key \in DOMAIN active_jobs
    /\ threads[active_jobs[Key]].inst # cur[c].inst

\* C18: the job map is one for all Employer objects. A start made through
\* another object than the one that started the recorded thread finds the key,
\* creates no thread and leaves the map as it is; a stop made through another
\* object finds the key, joins the recorded thread and deletes the key.
C18_DedupAcrossInstances ==
    [][\A c \in Callers :
          ThroughOtherInstance(c) =>
              /\ (pc[c] = "start_check" /\ pc'[c] # "start_check") =>
                    /\ pc'[c] = "idle"
                    /\ done'[c].spawned = 0
                    /\ threads' = threads
                    /\ active_jobs' = active_jobs
              /\ (pc[c] = "stop_check" /\ pc'[c] # "stop_check") =>
                    pc'[c] = "stop_lookup"
              /\ (pc[c] = "stop_lookup" /\ pc'[c] # "stop_lookup") =>
                    /\ pc'[c] = "stop_join"
                    /\ cur'[c].joined = active_jobs[Key]
              /\ (pc[c] = "stop_del" /\ pc'[c] # "stop_del") =>
                    /\ cur[c].joined = active_jobs[Key]
                    /\ active_jobs' = NoJobs]_vars

\* C18 witness: a start made through one Employer object has returned without
\* a new thread because the key recorded a running thread started through
\* another object.
C18_Witness ==
    /\ pc[Main] = "idle"
    /\ done[Main].resp = StartName
    /\ done[Main].spawned = 0
    /\ Key \in DOMAIN done[Main].entry
    /\ threads[done[Main].entry[Key]].inst # done[Main].inst
    /\ Alive(done[Main].entry[Key])
    /\ Len(threads) = 1

\* C19: the audio value of a mail-polling thread is the one of the call that
\* created it and never changes; a start made while the key is recorded
\* changes neither the threads nor the map, whatever its audio value; and
\* every check_new_emails of a thread gives its output in the mode of the
\* thread's own audio value.
C19_WorkerAudioFixedAtSpawn ==
    [][/\ \A t \in DOMAIN threads : threads'[t].audio = threads[t].audio
       /\ \A t \in DOMAIN threads :
             threads'[t].out # "none" =>
                 threads'[t].out = OutputMode(threads[t].audio)
       /\ \A c \in Callers :
             (/\ pc[c] = "start_check"
              /\ pc'[c] # "start_check"
              /\ Key \in DOMAIN active_jobs) =>
                 (threads' = threads /\ active_jobs' = active_jobs)
       /\ \A c \in Callers :
             (pc[c] = "start_spawn" /\ pc'[c] # "start_spawn") =>
                 threads'[Len(threads')].audio = cur[c].audio]_vars

\* C19 witness: a start with another audio value than the recorded thread's
\* has returned while the key was recorded, and the recorded thread, still
\* the same, is running and has given output in the mode of its own audio
\* value.
C19_Witness ==
    /\ pc[Main] = "idle"
    /\ done[Main].resp = StartName
    /\ done[Main].spawned = 0
    /\ Key \in DOMAIN done[Main].entry
    /\ active_jobs = done[Main].entry
    /\ done[Main].audio # threads[active_jobs[Key]].audio
    /\ Alive(active_jobs[Key])
    /\ threads[active_jobs[Key]].out = OutputMode(threads[active_jobs[Key]].audio)


====
